---- MODULE Spec2Model ----
(***************************************************************************)
(* Model of schedule-backend/server.js: an Express application with four   *)
(* routes over the table SMP_USER_MASTER_SCHEDULES, a mysql2 connection    *)
(* pool, a startup connectivity check and the HTTP listener.               *)
(*                                                                         *)
(* A request is handled in two steps, as the handler's code is cut by its  *)
(* single await: Arrive is the synchronous part up to pool.execute (body   *)
(* destructuring, the PUT validation, the pool's getConnection), Complete  *)
(* is the statement's execution by the store, the release of the           *)
(* connection and the handler's continuation that sends the response.      *)
(* Requests are numbered in order of arrival.                              *)
(***************************************************************************)
EXTENDS Integers, Sequences, FiniteSets, TLC

\* ---------------------------------------------------------------- bounds

\* Number of requests of a run of Spec.
MaxRequests == 2

\* Number of requests of a run of SpecPool, beyond the pool's limit.
ExtraRequests == 1

\* ------------------------------------------------------ program constants

\* connectionLimit: 10
connectionLimit == 10

\* the value bound to INSERT_ID by the INSERT statement
INSERT_ID == 1

\* NUMBER_OF_DAYS >= 7 is rejected by the update route
DaysLimit == 7

\* --------------------------------------------------------- JSON/JS values

\* A JavaScript value of a JSON body: its type tag, its number (numbers and
\* booleans) and its text (strings).
Undefined == [t |-> "undefined", n |-> 0, s |-> ""]
Null == [t |-> "null", n |-> 0, s |-> ""]
Num(k) == [t |-> "number", n |-> k, s |-> ""]
Str(x) == [t |-> "string", n |-> 0, s |-> x]
Bool(b) == [t |-> "boolean", n |-> IF b THEN 1 ELSE 0, s |-> ""]

\* The strings of the model and what JavaScript's Number() makes of each:
\* "" and blanks are 0, a decimal literal is its value, anything else NaN.
NumericStrings == {<<"", 0>>, <<"5", 5>>, <<"7", 7>>}

\* ToNumber, as isNaN and >= apply it to a non-number operand: a record with
\* nan set for NaN, else the number.
ToNumber(v) ==
    CASE v.t = "number" -> [nan |-> FALSE, n |-> v.n]
      [] v.t = "boolean" -> [nan |-> FALSE, n |-> v.n]
      [] v.t = "null" -> [nan |-> FALSE, n |-> 0]
      [] v.t = "undefined" -> [nan |-> TRUE, n |-> 0]
      [] v.t = "string" ->
            IF \E p \in NumericStrings : p[1] = v.s
            THEN [nan |-> FALSE, n |-> (CHOOSE p \in NumericStrings : p[1] = v.s)[2]]
            ELSE [nan |-> TRUE, n |-> 0]

\* The global isNaN(v): ToNumber(v) is NaN.
isNaN(v) == ToNumber(v).nan

\* v >= k for a number k: both sides by ToNumber, false when either is NaN.
GreaterEq(v, k) == ~ToNumber(v).nan /\ ToNumber(v).n >= k

\* Truthiness, as || tests it.
Truthy(v) ==
    CASE v.t = "undefined" -> FALSE
      [] v.t = "null" -> FALSE
      [] v.t = "number" -> v.n # 0
      [] v.t = "boolean" -> v.n = 1
      [] v.t = "string" -> v.s # ""

\* v || null
OrNull(v) == IF Truthy(v) THEN v ELSE Null

\* ------------------------------------------------------------------ state

VARIABLES
    startup,    \* the startup check: "pending", "ok" or "failed"
    listening,  \* app.listen has bound the port
    exited,     \* process.exit(1) was called
    inUse,      \* holders of a pool connection: request numbers, 0 the startup check
    waitq,      \* the pool's queue of callers waiting for a connection
    table,      \* SMP_USER_MASTER_SCHEDULES: USER_SCHD_ID -> row
    nextId,     \* the table's auto-increment counter
    req         \* the requests: position in the handler, input, response

vars == <<startup, listening, exited, inUse, waitq, table, nextId, req>>

\* ----------------------------------------------------------------- inputs

Body(ty, de, days, st, ve) ==
    [SCHEDULER_TYPE |-> ty, SCHEDULER_DETAILS |-> de, NUMBER_OF_DAYS |-> days,
     STATUS |-> st, VENDOR_ID |-> ve]

NoBody == Body(Undefined, Undefined, Undefined, Undefined, Undefined)

\* Bodies sent to POST /api/schedules.
PostBodies ==
    { Body(Str("daily"), Str("d"), Num(3), Str("active"), Str("V1")),
      Body(Str("daily"), Str("d"), Undefined, Undefined, Str("V1")),
      Body(Str("daily"), Str("d"), Num(0), Str(""), Str("V1")),
      Body(Str("daily"), Str("d"), Num(7), Str("active"), Str("V1")),
      Body(Str("daily"), Str("d"), Num(3), Str("active"), Undefined) }

\* Values of NUMBER_OF_DAYS sent to PUT /api/schedules/:id.
PutDays ==
    { Undefined, Null, Num(2), Num(5), Num(7), Str(""), Str("5"), Str("abc"),
      Bool(TRUE) }

\* Bodies sent to PUT: NUMBER_OF_DAYS alone, or with other fields beside it.
PutBodies ==
    { Body(Undefined, Undefined, d, Undefined, Undefined) : d \in PutDays }
    \cup { Body(Str("weekly"), Str("x"), Num(5), Str("off"), Str("V2")) }

\* Identifiers of request paths.
PathIds == 1 .. 2

\* err.message of an error raised by the driver or the store.
ErrMessage == "ER"

\* ------------------------------------------------------------ the requests

IdleRequest ==
    [pc |-> "idle", method |-> "", id |-> 0, body |-> NoBody,
     status |-> 0, responses |-> 0, stmts |-> 0,
     error |-> <<>>, insertId |-> 0, rows |-> <<>>,
     waited |-> FALSE, raised |-> FALSE]

\* ----------------------------------------------------- the store's statements

Ids(tbl) == DOMAIN tbl

\* Mutant: the listing leaves out the rows whose STATUS is null.
SelectAllActive(tbl) ==
    [i \in {j \in Ids(tbl) : tbl[j].STATUS.t # "null"} |-> tbl[i]]

\* SELECT * FROM SMP_USER_MASTER_SCHEDULES
SelectAll(tbl) == tbl

\* The bind parameters of the INSERT statement.
InsertParams(body) ==
    <<body.SCHEDULER_TYPE, body.SCHEDULER_DETAILS, OrNull(body.NUMBER_OF_DAYS),
      OrNull(body.STATUS), body.VENDOR_ID, Num(INSERT_ID)>>

\* mysql2's execute refuses a bind parameter that is undefined: it raises
\* before any statement is sent.
BindError(params) == \E i \in DOMAIN params : params[i].t = "undefined"

\* INSERT INTO SMP_USER_MASTER_SCHEDULES (...) VALUES (?, ?, ?, ?, ?, ?): the
\* row the store adds under the identifier it assigns.
InsertRow(params, id) ==
    [USER_SCHD_ID |-> id, SCHEDULER_TYPE |-> params[1],
     SCHEDULER_DETAILS |-> params[2], NUMBER_OF_DAYS |-> params[3],
     STATUS |-> params[4], VENDOR_ID |-> params[5], INSERT_ID |-> params[6]]

InsertStmt(tbl, params, id) ==
    [table |-> [i \in Ids(tbl) \cup {id} |->
                    IF i = id THEN InsertRow(params, id) ELSE tbl[i]],
     insertId |-> id]

\* Mutant: the UPDATE lacks its WHERE clause and rewrites every row.
UpdateAllRows(tbl, days, id) ==
    [table |-> [i \in Ids(tbl) |-> [tbl[i] EXCEPT !.NUMBER_OF_DAYS = days]],
     affectedRows |-> Cardinality(Ids(tbl))]

\* Mutant: affectedRows counts the rows the UPDATE changed, not those it
\* matched.
UpdateChangedRows(tbl, days, id) ==
    [table |-> [i \in Ids(tbl) |->
                    IF i = id THEN [tbl[i] EXCEPT !.NUMBER_OF_DAYS = days] ELSE tbl[i]],
     affectedRows |-> Cardinality({i \in Ids(tbl) :
                                      i = id /\ tbl[i].NUMBER_OF_DAYS # days})]

\* UPDATE SMP_USER_MASTER_SCHEDULES SET NUMBER_OF_DAYS = ? WHERE USER_SCHD_ID = ?
\* affectedRows counts the rows the WHERE clause matched (the driver connects
\* with the FOUND_ROWS flag).
UpdateStmt(tbl, days, id) ==
    [table |-> [i \in Ids(tbl) |->
                    IF i = id THEN [tbl[i] EXCEPT !.NUMBER_OF_DAYS = days] ELSE tbl[i]],
     affectedRows |-> Cardinality({i \in Ids(tbl) : i = id})]

\* Mutant: the DELETE lacks its WHERE clause and removes every row.
DeleteAllRows(tbl, id) ==
    [table |-> <<>>, affectedRows |-> Cardinality(Ids(tbl))]

\* DELETE FROM SMP_USER_MASTER_SCHEDULES WHERE USER_SCHD_ID = ?
DeleteStmt(tbl, id) ==
    [table |-> [i \in Ids(tbl) \ {id} |-> tbl[i]],
     affectedRows |-> Cardinality({i \in Ids(tbl) : i = id})]

\* The table when the process starts: the store outlives the process, and
\* holds the record an earlier POST of the first of PostBodies left.
InitialTable ==
    InsertStmt(<<>>, InsertParams(Body(Str("daily"), Str("d"), Num(3),
                                       Str("active"), Str("V1"))), 1).table

\* Module load: the pool is created and asked for the startup check's
\* connection, the routes are registered, app.listen is called.
Init ==
    /\ startup = "pending"
    /\ listening = FALSE
    /\ exited = FALSE
    /\ inUse = {0}
    /\ waitq = <<>>
    /\ table = InitialTable
    /\ nextId = Cardinality(Ids(InitialTable)) + 1
    /\ req = [r \in 1 .. MaxRequests |-> IdleRequest]

\* ------------------------------------------------------------ the handlers

\* The update route's validation of NUMBER_OF_DAYS: TRUE when it answers 400.
RejectsUpdate(days) ==
    \/ days.t = "undefined"
    \/ days.t = "null"
    \/ isNaN(days)
    \/ GreaterEq(days, DaysLimit)

\* Mutant: the pool opens a connection for every caller.
PoolUnbounded == TRUE

\* pool.getConnection: a connection when fewer than connectionLimit are in
\* use, else the caller waits in the queue (waitForConnections, queueLimit 0).
PoolHasFree == Cardinality(inUse) < connectionLimit

\* connection.release() by holder h: the connection goes to the head of the
\* queue when somebody waits, else back to the pool.
Release(h, rq) ==
    IF waitq # <<>>
    THEN /\ inUse' = (inUse \ {h}) \cup {Head(waitq)}
         /\ waitq' = Tail(waitq)
         /\ req' = [rq EXCEPT ![Head(waitq)].pc = "executing"]
    ELSE /\ inUse' = inUse \ {h}
         /\ waitq' = waitq
         /\ req' = rq

\* The handler is entered: requests are numbered in order of arrival.
Arrives(r) ==
    /\ listening
    /\ ~exited
    /\ req[r].pc = "idle"
    /\ \A q \in DOMAIN req : q < r => req[q].pc # "idle"

\* pool.execute(...) is called: the request gets a connection or queues.
Execute(r, rq) ==
    /\ IF PoolHasFree
       THEN /\ inUse' = inUse \cup {r}
            /\ waitq' = waitq
            /\ req' = [req EXCEPT ![r] = [rq EXCEPT !.pc = "executing"]]
       ELSE /\ inUse' = inUse
            /\ waitq' = Append(waitq, r)
            /\ req' = [req EXCEPT ![r] = [rq EXCEPT !.pc = "queued", !.waited = TRUE]]
    /\ UNCHANGED <<startup, listening, exited, table, nextId>>

\* The response is sent and the handler returns.
Responded(rq, status) ==
    [rq EXCEPT !.pc = "done", !.status = status, !.responses = rq.responses + 1]

\* Mutant: the catch block sends the statement once more before answering.
FailedRetry(rq, text) ==
    [rq EXCEPT !.pc = "done", !.status = 500, !.responses = rq.responses + 1,
               !.stmts = rq.stmts + 1, !.error = text, !.raised = TRUE]

\* A catch block: the error is logged and answered with 500.
Failed(rq, text) ==
    [Responded(rq, 500) EXCEPT !.error = text, !.raised = TRUE]

\* Mutant: the handler does not look at affectedRows.
NotFoundMissing(result) == FALSE

\* result.affectedRows === 0
NotFound(result) == result.affectedRows = 0

ArriveGet(r) ==
    /\ Arrives(r)
    /\ Execute(r, [IdleRequest EXCEPT !.method = "GET"])

ArrivePost(r, body) ==
    /\ Arrives(r)
    /\ Execute(r, [IdleRequest EXCEPT !.method = "POST", !.body = body])

ArrivePut(r, id, body) ==
    /\ Arrives(r)
    /\ LET rq == [IdleRequest EXCEPT !.method = "PUT", !.id = id, !.body = body]
       IN IF RejectsUpdate(body.NUMBER_OF_DAYS)
          THEN /\ req' = [req EXCEPT ![r] =
                    [Responded(rq, 400) EXCEPT !.error =
                        <<"Number of Days must be a valid number and less than 7.">>]]
               /\ UNCHANGED <<startup, listening, exited, inUse, waitq, table, nextId>>
          ELSE Execute(r, rq)

ArriveDelete(r, id) ==
    /\ Arrives(r)
    /\ Execute(r, [IdleRequest EXCEPT !.method = "DELETE", !.id = id])

\* The awaited pool.execute settles for request r.
Settles(r, method) ==
    /\ ~exited
    /\ req[r].pc = "executing"
    /\ req[r].method = method

\* The statement was sent to the store.
Sent(rq) == [rq EXCEPT !.stmts = rq.stmts + 1]

\* GET /api/schedules
CompleteGet(r, fail) ==
    /\ Settles(r, "GET")
    /\ IF fail
       THEN Release(r, [req EXCEPT ![r] =
                Failed(Sent(req[r]), <<"Failed to fetch schedules">>)])
       ELSE Release(r, [req EXCEPT ![r] =
                [Responded(Sent(req[r]), 200) EXCEPT !.rows = SelectAll(table)]])
    /\ UNCHANGED <<startup, listening, exited, table, nextId>>

\* POST /api/schedules
CompletePost(r, fail) ==
    /\ Settles(r, "POST")
    /\ LET params == InsertParams(req[r].body)
           res == InsertStmt(table, params, nextId)
       IN IF BindError(params)
          THEN /\ Release(r, [req EXCEPT ![r] =
                    Failed(req[r], <<"Error adding schedule: ", ErrMessage>>)])
               /\ UNCHANGED <<table, nextId>>
          ELSE IF fail
          THEN /\ Release(r, [req EXCEPT ![r] =
                    Failed(Sent(req[r]), <<"Error adding schedule: ", ErrMessage>>)])
               /\ UNCHANGED <<table, nextId>>
          ELSE /\ Release(r, [req EXCEPT ![r] =
                    [Responded(Sent(req[r]), 201) EXCEPT !.insertId = res.insertId]])
               /\ table' = res.table
               /\ nextId' = nextId + 1
    /\ UNCHANGED <<startup, listening, exited>>

\* PUT /api/schedules/:id
CompletePut(r, fail) ==
    /\ Settles(r, "PUT")
    /\ LET res == UpdateStmt(table, req[r].body.NUMBER_OF_DAYS, req[r].id)
       IN IF fail
          THEN /\ Release(r, [req EXCEPT ![r] =
                    Failed(Sent(req[r]), <<"Error updating schedule: ", ErrMessage>>)])
               /\ UNCHANGED table
          ELSE /\ Release(r, [req EXCEPT ![r] =
                    IF NotFound(res)
                    THEN [Responded(Sent(req[r]), 404) EXCEPT !.error =
                            <<"Schedule not found">>]
                    ELSE Responded(Sent(req[r]), 200)])
               /\ table' = res.table
    /\ UNCHANGED <<startup, listening, exited, nextId>>

\* DELETE /api/schedules/:id
CompleteDelete(r, fail) ==
    /\ Settles(r, "DELETE")
    /\ LET res == DeleteStmt(table, req[r].id)
       IN IF fail
          THEN /\ Release(r, [req EXCEPT ![r] =
                    Failed(Sent(req[r]), <<"Error deleting schedule: ", ErrMessage>>)])
               /\ UNCHANGED table
          ELSE /\ Release(r, [req EXCEPT ![r] =
                    IF NotFound(res)
                    THEN [Responded(Sent(req[r]), 404) EXCEPT !.error =
                            <<"Schedule not found">>]
                    ELSE Responded(Sent(req[r]), 200)])
               /\ table' = res.table
    /\ UNCHANGED <<startup, listening, exited, nextId>>

\* ------------------------------------------------------------------ startup

\* The startup check's getConnection resolves: the connection is released.
StartupOk ==
    /\ ~exited
    /\ startup = "pending"
    /\ startup' = "ok"
    /\ Release(0, req)
    /\ UNCHANGED <<listening, exited, table, nextId>>

\* Mutant: the failure is logged and the process keeps running.
StartupFailNoExit ==
    /\ ~exited
    /\ startup = "pending"
    /\ startup' = "failed"
    /\ Release(0, req)
    /\ UNCHANGED <<listening, exited, table, nextId>>

\* The startup check's getConnection rejects: process.exit(1). The process is
\* gone, and with it the pool and the requests in flight; the store keeps
\* its rows, and listening keeps whether the listener had been started.
StartupFail ==
    /\ ~exited
    /\ startup = "pending"
    /\ startup' = "failed"
    /\ exited' = TRUE
    /\ inUse' = {}
    /\ waitq' = <<>>
    /\ req' = [r \in DOMAIN req |-> IdleRequest]
    /\ UNCHANGED <<listening, table, nextId>>

\* app.listen(port, ...): the listener is bound.
Listen ==
    /\ ~exited
    /\ ~listening
    /\ listening' = TRUE
    /\ UNCHANGED <<startup, exited, inUse, waitq, table, nextId, req>>

\* ------------------------------------------------------------ specifications

Next ==
    \/ StartupOk
    \/ StartupFail
    \/ Listen
    \/ \E r \in DOMAIN req : ArriveGet(r)
    \/ \E r \in DOMAIN req, body \in PostBodies : ArrivePost(r, body)
    \/ \E r \in DOMAIN req, id \in PathIds, body \in PutBodies : ArrivePut(r, id, body)
    \/ \E r \in DOMAIN req, id \in PathIds : ArriveDelete(r, id)
    \/ \E r \in DOMAIN req, fail \in BOOLEAN : CompleteGet(r, fail)
    \/ \E r \in DOMAIN req, fail \in BOOLEAN : CompletePost(r, fail)
    \/ \E r \in DOMAIN req, fail \in BOOLEAN : CompletePut(r, fail)
    \/ \E r \in DOMAIN req, fail \in BOOLEAN : CompleteDelete(r, fail)

Spec == Init /\ [][Next]_vars

\* The pool under load: more list requests than the pool has connections,
\* against a store that answers every statement (the code sets no timeout and
\* cancels nothing, so an awaited statement is awaited until it settles).
PoolRequests == 1 .. (connectionLimit + ExtraRequests)

InitPool ==
    /\ startup = "pending"
    /\ listening = FALSE
    /\ exited = FALSE
    /\ inUse = {0}
    /\ waitq = <<>>
    /\ table = InitialTable
    /\ nextId = Cardinality(Ids(InitialTable)) + 1
    /\ req = [r \in PoolRequests |-> IdleRequest]

NextPool ==
    \/ StartupOk
    \/ StartupFail
    \/ Listen
    \/ \E r \in DOMAIN req : ArriveGet(r)
    \/ \E r \in DOMAIN req : CompleteGet(r, FALSE)

SpecPool ==
    /\ InitPool
    /\ [][NextPool]_vars
    /\ \A r \in PoolRequests : WF_vars(CompleteGet(r, FALSE))

\* ----------------------------------------------------------------- history

\* Request r's handler returns in this step.
Completes(r) == req[r].pc # "done" /\ req'[r].pc = "done"

\* The identifiers of the records created (a POST answered 201) and of the
\* records deleted (a DELETE answered 200) by the requests answered so far.
Created(rq) ==
    {rq[r].insertId : r \in {q \in DOMAIN rq :
        rq[q].pc = "done" /\ rq[q].method = "POST" /\ rq[q].status = 201}}

Deleted(rq) ==
    {rq[r].id : r \in {q \in DOMAIN rq :
        rq[q].pc = "done" /\ rq[q].method = "DELETE" /\ rq[q].status = 200}}

\* The strings of the model that are decimal numerals.
Numerals == {"5", "7"}

\* NUMBER_OF_DAYS is present and a number below 7, written as a JSON number
\* or as the numeral of one.
NumberBelowLimit(days) ==
    /\ days.t = "number" \/ (days.t = "string" /\ days.s \in Numerals)
    /\ ToNumber(days).n < DaysLimit

\* The table without the row of identifier id.
Without(tbl, id) == [i \in Ids(tbl) \ {id} |-> tbl[i]]

\* ------------------------------------------------------------------ claims

\* C1: a PUT whose NUMBER_OF_DAYS is missing, is not a number (nor the
\* numeral of one) or is 7 or more is answered 400 with no statement issued,
\* and a PUT gets as far as the UPDATE statement only with a NUMBER_OF_DAYS
\* that is a number below 7.
C1_UpdateValidated ==
    \A r \in DOMAIN req :
        req[r].method = "PUT" =>
            /\ ~NumberBelowLimit(req[r].body.NUMBER_OF_DAYS) =>
                    req[r].pc = "done" /\ req[r].status = 400 /\ req[r].stmts = 0
            /\ req[r].pc \in {"queued", "executing"} \/ req[r].stmts > 0 =>
                    NumberBelowLimit(req[r].body.NUMBER_OF_DAYS)

\* C2 as stated: the listener accepts requests only once the startup check
\* has succeeded, a failed check ends the process, and a successful check
\* has released its connection.
C2_ListenerAfterCheck ==
    /\ listening => startup = "ok"
    /\ startup = "failed" => exited
    /\ startup = "ok" => 0 \notin inUse

\* C2, amended: a failed startup check ends the process, after which no
\* request is received or answered and nothing is written; a successful check
\* has released its connection and leaves the process running; the listener
\* is started whether or not the check has finished.
C2_StartupCheck ==
    /\ [](/\ startup = "failed" <=> exited
          /\ startup = "ok" => 0 \notin inUse
          /\ startup = "pending" => 0 \in inUse
          /\ ~exited /\ ~listening => ENABLED Listen)
    /\ [][exited => UNCHANGED <<req, table, nextId, listening>>]_vars

C2_Witness == startup = "failed" /\ exited /\ listening

\* C3: a POST answered 201 has added exactly one row, under the identifier
\* the response carries, whose fields are the values of the request, with
\* NUMBER_OF_DAYS and STATUS null exactly when missing from the request, and
\* INSERT_ID 1.
C3_CreateStoresSupplied ==
    [][\A r \in DOMAIN req :
        Completes(r) /\ req'[r].method = "POST" /\ req'[r].status = 201 =>
            LET id == req'[r].insertId
                b == req[r].body
            IN /\ id \notin Ids(table)
               /\ Ids(table') = Ids(table) \cup {id}
               /\ \A i \in Ids(table) : table'[i] = table[i]
               /\ table'[id] =
                    [USER_SCHD_ID |-> id,
                     SCHEDULER_TYPE |-> b.SCHEDULER_TYPE,
                     SCHEDULER_DETAILS |-> b.SCHEDULER_DETAILS,
                     NUMBER_OF_DAYS |-> IF b.NUMBER_OF_DAYS.t = "undefined"
                                        THEN Null ELSE b.NUMBER_OF_DAYS,
                     STATUS |-> IF b.STATUS.t = "undefined" THEN Null ELSE b.STATUS,
                     VENDOR_ID |-> b.VENDOR_ID,
                     INSERT_ID |-> Num(1)]]_vars

\* C4: a GET answered 200 returns exactly the rows of the records created
\* (those the table started with and those of the POSTs answered 201) and not
\* deleted by the requests answered before it.
C4_ListExact ==
    [][\A r \in DOMAIN req :
        Completes(r) /\ req'[r].method = "GET" /\ req'[r].status = 200 =>
            /\ Ids(req'[r].rows) =
                    (Ids(InitialTable) \cup Created(req)) \ Deleted(req)
            /\ req'[r].rows = table
            /\ table' = table]_vars

C4_Witness ==
    \E g, d \in DOMAIN req :
        /\ req[g].pc = "done" /\ req[g].method = "GET" /\ req[g].status = 200
        /\ req[d].pc = "done" /\ req[d].method = "DELETE" /\ req[d].status = 200
        /\ d < g
        /\ req[d].id \in Ids(InitialTable)
        /\ req[g].rows = <<>>

\* C5: a PUT answered 200 has set NUMBER_OF_DAYS of the row of its identifier
\* to the request's value and has changed nothing else: not the row's other
\* fields, whatever else the body holds, and no other row.
C5_UpdateFrame ==
    [][\A r \in DOMAIN req :
        Completes(r) /\ req'[r].method = "PUT" /\ req'[r].status = 200 =>
            /\ req[r].id \in Ids(table)
            /\ table' = [table EXCEPT ![req[r].id].NUMBER_OF_DAYS =
                            req[r].body.NUMBER_OF_DAYS]
            /\ nextId' = nextId]_vars

C5_Witness ==
    \E r \in DOMAIN req :
        /\ req[r].pc = "done" /\ req[r].method = "PUT" /\ req[r].status = 200
        /\ req[r].body.STATUS.t # "undefined"
        /\ Cardinality(Ids(table)) = 2
        /\ table[req[r].id].NUMBER_OF_DAYS = req[r].body.NUMBER_OF_DAYS
        /\ table[req[r].id].STATUS # req[r].body.STATUS

\* C6: a PUT that passed validation, or a DELETE, whose statement the store
\* executed is answered 404 'Schedule not found' and leaves the table as it
\* was when its identifier matches no row, and is answered 200 when it matches
\* one; a request whose identifier matches a row is never answered 404.
C6_NotFound ==
    [][\A r \in DOMAIN req :
        Completes(r) /\ req[r].pc = "executing"
            /\ req'[r].method \in {"PUT", "DELETE"} =>
            /\ req[r].id \in Ids(table) => req'[r].status # 404
            /\ ~req'[r].raised =>
                IF req[r].id \in Ids(table)
                THEN req'[r].status = 200
                ELSE /\ req'[r].status = 404
                     /\ req'[r].error = <<"Schedule not found">>
                     /\ table' = table
                     /\ nextId' = nextId]_vars

C6_Witness ==
    \E p, d \in DOMAIN req :
        /\ req[p].pc = "done" /\ req[p].method = "PUT" /\ req[p].status = 404
        /\ req[d].pc = "done" /\ req[d].method = "DELETE" /\ req[d].status = 404

\* C7: a DELETE answered 200 has removed the row of its identifier and no
\* other; from then on no listing holds a row of that identifier, and every
\* DELETE or PUT of that identifier that reaches the store is answered 404.
C7_DeleteFinal ==
    [][\A r \in DOMAIN req :
        Completes(r) =>
            /\ req'[r].method = "DELETE" /\ req'[r].status = 200 =>
                    /\ req[r].id \in Ids(table)
                    /\ table' = Without(table, req[r].id)
            /\ req'[r].method = "GET" /\ req'[r].status = 200 =>
                    Ids(req'[r].rows) \cap Deleted(req) = {}
            /\ req'[r].method \in {"PUT", "DELETE"} /\ req[r].pc = "executing"
                    /\ ~req'[r].raised /\ req[r].id \in Deleted(req) =>
                    req'[r].status = 404]_vars

C7_Witness ==
    \E d, e \in DOMAIN req :
        /\ d < e
        /\ req[d].pc = "done" /\ req[d].method = "DELETE" /\ req[d].status = 200
        /\ req[e].pc = "done" /\ req[e].method = "DELETE" /\ req[e].status = 404
        /\ req[e].id = req[d].id

\* C8: a request whose statement raised an error is answered 500, once, after
\* at most one statement, and the table is as it was; the list route's 500
\* carries 'Failed to fetch schedules' and nothing of the error.
C8_ErrorTerminal ==
    /\ [](\A r \in DOMAIN req :
            req[r].pc = "done" =>
                /\ req[r].responses = 1
                /\ req[r].stmts <= 1
                /\ req[r].raised <=> req[r].status = 500
                /\ req[r].raised /\ req[r].method = "GET" =>
                        req[r].error = <<"Failed to fetch schedules">>)
    /\ [][\A r \in DOMAIN req :
            Completes(r) /\ req'[r].raised =>
                table' = table /\ nextId' = nextId]_vars

C8_Witness ==
    \E g, p \in DOMAIN req :
        /\ req[g].pc = "done" /\ req[g].method = "GET" /\ req[g].status = 500
        /\ req[g].stmts = 1
        /\ req[p].pc = "done" /\ req[p].method = "PUT" /\ req[p].status = 500
        /\ Ids(table) # {}

Answered == {r \in DOMAIN req : req[r].pc = "done"}

Orders(S) ==
    {o \in [1 .. Cardinality(S) -> S] :
        \A i, j \in 1 .. Cardinality(S) : i # j => o[i] # o[j]}

\* One request served alone, from the store st it finds: the store it leaves,
\* and whether its response is the one request r got. A request whose
\* statement raised leaves the store as it was.
SerialStep(st, r) ==
    LET rq == req[r]
        days == rq.body.NUMBER_OF_DAYS
        same == [st EXCEPT !.ok = FALSE]
    IN CASE rq.method = "GET" ->
                IF rq.raised
                THEN [st EXCEPT !.ok = st.ok /\ rq.status = 500]
                ELSE [st EXCEPT !.ok = st.ok /\ rq.status = 200 /\ rq.rows = st.table]
         [] rq.method = "POST" ->
                IF rq.raised
                THEN [st EXCEPT !.ok = st.ok /\ rq.status = 500]
                ELSE [table |-> [i \in Ids(st.table) \cup {st.nextId} |->
                                    IF i = st.nextId
                                    THEN InsertRow(InsertParams(rq.body), i)
                                    ELSE st.table[i]],
                      nextId |-> st.nextId + 1,
                      ok |-> st.ok /\ rq.status = 201 /\ rq.insertId = st.nextId]
         [] rq.method = "PUT" ->
                IF RejectsUpdate(days)
                THEN [st EXCEPT !.ok = st.ok /\ rq.status = 400]
                ELSE IF rq.raised
                THEN [st EXCEPT !.ok = st.ok /\ rq.status = 500]
                ELSE IF rq.id \in Ids(st.table)
                THEN [st EXCEPT !.ok = st.ok /\ rq.status = 200,
                                !.table = [st.table EXCEPT
                                              ![rq.id].NUMBER_OF_DAYS = days]]
                ELSE [st EXCEPT !.ok = st.ok /\ rq.status = 404]
         [] rq.method = "DELETE" ->
                IF rq.raised
                THEN [st EXCEPT !.ok = st.ok /\ rq.status = 500]
                ELSE IF rq.id \in Ids(st.table)
                THEN [st EXCEPT !.ok = st.ok /\ rq.status = 200,
                                !.table = Without(st.table, rq.id)]
                ELSE [st EXCEPT !.ok = st.ok /\ rq.status = 404]
         [] OTHER -> same

RECURSIVE SerialRun(_, _, _)
SerialRun(order, k, st) ==
    IF k > Len(order) THEN st
    ELSE SerialRun(order, k + 1, SerialStep(st, order[k]))

\* Serving the answered requests one after the other in this order, from the
\* table the process started with, gives each its response and leaves the table as it is now.
SerialOrder(order) ==
    LET end == SerialRun(order, 1, [table |-> InitialTable,
                                    nextId |-> Cardinality(Ids(InitialTable)) + 1,
                                    ok |-> TRUE])
    IN end.ok /\ end.table = table /\ end.nextId = nextId

\* The PUT requests answered 200 for identifier i.
Updates(i) ==
    {r \in Answered : req[r].method = "PUT" /\ req[r].status = 200 /\ req[r].id = i}

\* C10: the responses of the answered requests and the table are those of
\* serving these requests one at a time in some order; a row that was updated
\* holds the NUMBER_OF_DAYS of one of its updates answered 200; once a DELETE
\* of an identifier is answered 200 the row is absent and every PUT of that
\* identifier that reached the store without error was answered 200 or 404;
\* and a PUT or DELETE whose statement finds the row, whatever other requests
\* are in flight, is answered 200 and has written its value or removed the row.
C10_Serializable ==
    /\ [](~exited =>
            /\ \E order \in Orders(Answered) : SerialOrder(order)
            /\ \A i \in Ids(table) : Updates(i) # {} =>
                    \E p \in Updates(i) :
                        table[i].NUMBER_OF_DAYS = req[p].body.NUMBER_OF_DAYS
            /\ \A d \in Answered :
                    req[d].method = "DELETE" /\ req[d].status = 200 =>
                        /\ req[d].id \notin Ids(table)
                        /\ \A p \in Answered :
                                req[p].method = "PUT" /\ req[p].id = req[d].id
                                    /\ req[p].stmts = 1 /\ ~req[p].raised =>
                                req[p].status \in {200, 404})
    /\ [][\A r \in DOMAIN req :
            Completes(r) /\ req[r].pc = "executing" /\ ~req'[r].raised
                /\ req[r].id \in Ids(table) =>
                /\ req[r].method = "PUT" =>
                        /\ req'[r].status = 200
                        /\ table'[req[r].id].NUMBER_OF_DAYS =
                                req[r].body.NUMBER_OF_DAYS
                /\ req[r].method = "DELETE" =>
                        /\ req'[r].status = 200
                        /\ req[r].id \notin Ids(table')]_vars

\* Two updates of one row, both answered 200, the row holding the value of the
\* one that arrived first: the second was served while the first was waiting
\* for the store.
C10_Witness ==
    \E p1, p2 \in Answered :
        /\ p1 < p2
        /\ req[p1].id = req[p2].id
        /\ p1 \in Updates(req[p1].id)
        /\ p2 \in Updates(req[p1].id)
        /\ req[p1].body.NUMBER_OF_DAYS # req[p2].body.NUMBER_OF_DAYS
        /\ req[p1].id \in Ids(table)
        /\ table[req[p1].id].NUMBER_OF_DAYS = req[p1].body.NUMBER_OF_DAYS

====
